---- MODULE Spec2Model ----
(***************************************************************************)
(* State machine of the NBAGames view of src/src/app/page.tsx: the game    *)
(* list loader (fetch on mount, 60 s interval), the box score loader       *)
(* (handleGameClick), the carousel handlers and the render function's      *)
(* choice of what to show.                                                 *)
(*                                                                         *)
(* An optional value (T | null, T | undefined) is a sequence of length 0   *)
(* or 1: None == <<>> and Some(x) == <<x>>.                                *)
(* Index values are the 0-based indices of the source.                     *)
(* A handler that resumes after the view was torn down finds no component  *)
(* to update: its state setters change nothing.                            *)
(***************************************************************************)
EXTENDS Integers, Sequences, FiniteSets, TLC

VARIABLES
    phase,            \* "created" | "mounted" | "unmounted": lifecycle of the component
    timer,            \* the setInterval handle is live
    activeIndex,      \* useState(0)
    games,            \* useState<Game[]>([])
    loading,          \* useState(true)
    error,            \* useState<string | null>(null)
    showBoxScore,     \* useState(false)
    selectedGame,     \* useState<Game | null>(null)
    boxScoreLoading,  \* useState(false)
    listReqs,         \* number of fetch('/api/nba') calls awaiting their response
    boxReqs,          \* fetch('/api/nba/boxscore?gameId=..') calls awaiting their response:
                      \* per game id, how many of a superseded click (stale) and whether
                      \* the one of the most recent click (latest, 0 or 1)
    lastOp,           \* history: the handler that ran last and the input it applied
    listHistory       \* history: "none" no list fetch has settled yet, "failed" some
                      \* failed and none succeeded, "ok" one has succeeded

vars == <<phase, timer, activeIndex, games, loading, error, showBoxScore,
          selectedGame, boxScoreLoading, listReqs, boxReqs, lastOp, listHistory>>

----------------------------------------------------------------------------
(* Bounds *)

MaxGameId == 2      \* game identifiers are 1..MaxGameId
MaxPlayers == 1     \* a team's loaded box score has MaxPlayers players
MaxListReqs == 2    \* list requests in flight at once
MaxBoxReqs == 2     \* box score requests in flight at once
MaxIndex == 1       \* cap on activeIndex

----------------------------------------------------------------------------
(* Optional values *)

None == <<>>

Some(x) == <<x>>

----------------------------------------------------------------------------
(* Data of the two endpoints *)

GameIds == 1..MaxGameId

\* The component never reads a score, it only copies and prints it: two values
\* are enough to tell a refreshed score from a retained one.
Scores == {98, 101}

\* interface Player; player i of a side of game g
Player(g, side, i) ==
    [name |-> <<"player", g, side, i>>, position |-> "G", minutes |-> "07:30",
     points |-> i, rebounds |-> 0, assists |-> 0, steals |-> 0, blocks |-> 0,
     fg |-> "7-12", threes |-> "1-2", ft |-> "0-0"]

\* interface Team, as the list endpoint returns it: players is absent
Team(g, side, s) ==
    [name |-> <<"team", g, side>>, logo |-> <<"logo", g, side>>,
     color |-> <<"color", g, side>>, secondaryColor |-> <<"color2", g, side>>,
     score |-> s, players |-> None]

\* interface Game
Game(g, s) ==
    [id |-> g, homeTeam |-> Team(g, "home", s), awayTeam |-> Team(g, "away", s),
     time |-> <<"time", g>>, status |-> <<"status", g>>]

\* today's first n games, all at score s
Schedule(n, s) == [g \in 1..n |-> Game(g, s)]

\* data.games of an ok response of GET /api/nba
ListResponses == {Schedule(n, s) : n \in 0..MaxGameId, s \in Scores}

\* the players of a side of game g
Roster(g, side) == [i \in 1..MaxPlayers |-> Player(g, side, i)]

\* the body of an ok response of GET /api/nba/boxscore?gameId=g: the two rosters,
\* or two empty sequences (a game that has not started)
BoxScoreResponses(g) ==
    {[homeTeam |-> [players |-> <<>>], awayTeam |-> [players |-> <<>>]],
     [homeTeam |-> [players |-> Roster(g, "home")],
      awayTeam |-> [players |-> Roster(g, "away")]]}

\* err.message of a failed list fetch. The component only tests the message for
\* truthiness and prints it, so the message of the Error thrown for a non-ok
\* response stands for that of a network error too.
ListErrors == {"Failed to fetch games"}

----------------------------------------------------------------------------
(* Render: what the component returns *)

\* if (error): null and the empty string are falsy
Truthy(e) == e # None /\ e # Some("")

View ==
    IF loading THEN "loading"
    ELSE IF Truthy(error) THEN "error"
    ELSE IF Len(games) = 0 THEN "empty"
    ELSE "main"

\* the component is on screen
Mounted == phase = "mounted"

----------------------------------------------------------------------------
(* Initial state: the useState initial values, before the effect has run *)

\* Init with the loading flag starting false
InitNotLoading ==
    /\ phase = "created"
    /\ timer = FALSE
    /\ activeIndex = 0
    /\ games = <<>>
    /\ loading = FALSE
    /\ error = None
    /\ showBoxScore = FALSE
    /\ selectedGame = None
    /\ boxScoreLoading = FALSE
    /\ listReqs = 0
    /\ boxReqs = [g \in GameIds |-> [stale |-> 0, latest |-> 0]]
    /\ lastOp = [op |-> "init", arg |-> None]
    /\ listHistory = "none"

Init ==
    /\ phase = "created"
    /\ timer = FALSE
    /\ activeIndex = 0
    /\ games = <<>>
    /\ loading = TRUE
    /\ error = None
    /\ showBoxScore = FALSE
    /\ selectedGame = None
    /\ boxScoreLoading = FALSE
    /\ listReqs = 0
    /\ boxReqs = [g \in GameIds |-> [stale |-> 0, latest |-> 0]]
    /\ lastOp = [op |-> "init", arg |-> None]
    /\ listHistory = "none"

----------------------------------------------------------------------------
(* Helpers *)

\* the elements of a sequence
Range(s) == {s[i] : i \in DOMAIN s}

RECURSIVE CountFrom(_, _)
\* the box score requests in flight for the game ids g..MaxGameId
CountFrom(reqs, g) ==
    IF g > MaxGameId THEN 0
    ELSE reqs[g].stale + reqs[g].latest + CountFrom(reqs, g + 1)

\* the number of box score requests in flight
InFlight(reqs) == CountFrom(reqs, 1)

\* the request of the most recent click still awaits its response
LatestPending == \E g \in GameIds : boxReqs[g].latest = 1

\* fetch(`/api/nba/boxscore?gameId=${game.id}`): one more box score request awaits
\* its response; it is the latest, those in flight before it are stale.
IssueBoxRequest(game) ==
    [g \in GameIds |->
        [stale |-> boxReqs[g].stale + boxReqs[g].latest,
         latest |-> IF g = game.id THEN 1 ELSE 0]]

\* a request for game g (the latest one or a stale one) gets its response
Settle(g, kind) ==
    IF kind = "latest"
    THEN [boxReqs EXCEPT ![g].latest = 0]
    ELSE [boxReqs EXCEPT ![g].stale = boxReqs[g].stale - 1]

\* there is a request for game g of that kind in flight
Pending(g, kind) ==
    IF kind = "latest" THEN boxReqs[g].latest = 1 ELSE boxReqs[g].stale > 0

\* MergePlayers with the two sides' players exchanged
MergePlayersSwapped(prev, data) ==
    IF prev = None THEN None
    ELSE Some([prev[1] EXCEPT
                 !.homeTeam = [prev[1].homeTeam EXCEPT !.players = Some(data.awayTeam.players)],
                 !.awayTeam = [prev[1].awayTeam EXCEPT !.players = Some(data.homeTeam.players)]])

\* the updater passed to setSelectedGame on a box score response
MergePlayers(prev, data) ==
    IF prev = None THEN None
    ELSE Some([prev[1] EXCEPT
                 !.homeTeam = [prev[1].homeTeam EXCEPT !.players = Some(data.homeTeam.players)],
                 !.awayTeam = [prev[1].awayTeam EXCEPT !.players = Some(data.awayTeam.players)]])

----------------------------------------------------------------------------
(* The effect: fetch on mount, refetch every 60 s, clear the interval on teardown *)

\* the effect body runs once after the first render: fetchGames(), setInterval
Mount ==
    /\ phase = "created"
    /\ phase' = "mounted"
    /\ listReqs' = listReqs + 1
    /\ timer' = TRUE
    /\ lastOp' = [op |-> "Mount", arg |-> None]
    /\ UNCHANGED <<activeIndex, games, loading, error, showBoxScore, selectedGame,
                   boxScoreLoading, boxReqs, listHistory>>

\* the interval fires and calls fetchGames
Tick ==
    /\ timer
    /\ listReqs < MaxListReqs
    /\ listReqs' = listReqs + 1
    /\ lastOp' = [op |-> "Tick", arg |-> None]
    /\ UNCHANGED <<phase, timer, activeIndex, games, loading, error, showBoxScore,
                   selectedGame, boxScoreLoading, boxReqs, listHistory>>

\* the component's state goes with the component: the state variables are back
\* at the values a new instance would start from
StateDiscarded ==
    /\ activeIndex' = 0
    /\ games' = <<>>
    /\ loading' = TRUE
    /\ error' = None
    /\ showBoxScore' = FALSE
    /\ selectedGame' = None
    /\ boxScoreLoading' = FALSE

\* Unmount without clearInterval
UnmountKeepsTimer ==
    /\ phase = "mounted"
    /\ phase' = "unmounted"
    /\ StateDiscarded
    /\ lastOp' = [op |-> "Unmount", arg |-> None]
    /\ UNCHANGED <<timer, listReqs, boxReqs, listHistory>>

\* the view is torn down: the effect's cleanup clears the interval; requests in
\* flight are not aborted
Unmount ==
    /\ phase = "mounted"
    /\ phase' = "unmounted"
    /\ timer' = FALSE
    /\ StateDiscarded
    /\ lastOp' = [op |-> "Unmount", arg |-> None]
    /\ UNCHANGED <<listReqs, boxReqs, listHistory>>

\* ListFetchSucceeded that also replaces the selected game by its refreshed entry
ListFetchSucceededResyncs ==
    /\ listReqs > 0
    /\ listReqs' = listReqs - 1
    /\ IF Mounted
       THEN \E data \in ListResponses :
               /\ games' = data
               /\ loading' = FALSE
               /\ selectedGame' =
                    IF selectedGame # None /\ \E g \in Range(data) : g.id = selectedGame[1].id
                    THEN Some(CHOOSE g \in Range(data) : g.id = selectedGame[1].id)
                    ELSE selectedGame
               /\ lastOp' = [op |-> "ListFetchSucceeded", arg |-> Some(data)]
       ELSE /\ UNCHANGED <<games, loading, selectedGame>>
            /\ lastOp' = [op |-> "ListFetchSucceeded", arg |-> None]
    /\ listHistory' = "ok"
    /\ UNCHANGED <<phase, timer, activeIndex, error, showBoxScore,
                   boxScoreLoading, boxReqs>>

\* fetchGames resumes with an ok response: setGames(data.games); setLoading(false).
\* A state setter of a component that is no longer mounted changes nothing.
ListFetchSucceeded ==
    /\ listReqs > 0
    /\ listReqs' = listReqs - 1
    /\ IF Mounted
       THEN \E data \in ListResponses :
               /\ games' = data
               /\ loading' = FALSE
               /\ lastOp' = [op |-> "ListFetchSucceeded", arg |-> Some(data)]
       ELSE /\ UNCHANGED <<games, loading>>
            /\ lastOp' = [op |-> "ListFetchSucceeded", arg |-> None]
    /\ listHistory' = "ok"
    /\ UNCHANGED <<phase, timer, activeIndex, error, showBoxScore, selectedGame,
                   boxScoreLoading, boxReqs>>

\* ListFetchFailed without setLoading(false)
ListFetchFailedKeepsLoading ==
    /\ listReqs > 0
    /\ listReqs' = listReqs - 1
    /\ IF Mounted
       THEN \E msg \in ListErrors : error' = Some(msg)
       ELSE UNCHANGED error
    /\ listHistory' = IF listHistory = "ok" THEN "ok" ELSE "failed"
    /\ lastOp' = [op |-> "ListFetchFailed", arg |-> None]
    /\ UNCHANGED <<phase, timer, activeIndex, games, loading, showBoxScore, selectedGame,
                   boxScoreLoading, boxReqs>>

\* fetchGames resumes in its catch block: setError(message); setLoading(false)
ListFetchFailed ==
    /\ listReqs > 0
    /\ listReqs' = listReqs - 1
    /\ IF Mounted
       THEN /\ \E msg \in ListErrors : error' = Some(msg)
            /\ loading' = FALSE
       ELSE UNCHANGED <<error, loading>>
    /\ listHistory' = IF listHistory = "ok" THEN "ok" ELSE "failed"
    /\ lastOp' = [op |-> "ListFetchFailed", arg |-> None]
    /\ UNCHANGED <<phase, timer, activeIndex, games, showBoxScore, selectedGame,
                   boxScoreLoading, boxReqs>>

----------------------------------------------------------------------------
(* Carousel handlers; their controls exist only in the main view *)

handlePrevious ==
    /\ Mounted /\ View = "main"
    /\ activeIndex' = IF activeIndex = 0 THEN Len(games) - 1 ELSE activeIndex - 1
    /\ lastOp' = [op |-> "handlePrevious", arg |-> None]
    /\ UNCHANGED <<phase, timer, games, loading, error, showBoxScore, selectedGame,
                   boxScoreLoading, listReqs, boxReqs, listHistory>>

\* handleNext without the wrap to the first card
handleNextNoWrap ==
    /\ Mounted /\ View = "main"
    /\ activeIndex' = activeIndex + 1
    /\ activeIndex' <= MaxIndex
    /\ lastOp' = [op |-> "handleNext", arg |-> None]
    /\ UNCHANGED <<phase, timer, games, loading, error, showBoxScore, selectedGame,
                   boxScoreLoading, listReqs, boxReqs, listHistory>>

handleNext ==
    /\ Mounted /\ View = "main"
    /\ activeIndex' = IF activeIndex = Len(games) - 1 THEN 0 ELSE activeIndex + 1
    /\ activeIndex' <= MaxIndex
    /\ lastOp' = [op |-> "handleNext", arg |-> None]
    /\ UNCHANGED <<phase, timer, games, loading, error, showBoxScore, selectedGame,
                   boxScoreLoading, listReqs, boxReqs, listHistory>>

\* onClick of an indicator button: setActiveIndex(index)
IndicatorClick ==
    /\ Mounted /\ View = "main"
    /\ \E index \in 0..(Len(games) - 1) : activeIndex' = index
    /\ lastOp' = [op |-> "IndicatorClick", arg |-> None]
    /\ UNCHANGED <<phase, timer, games, loading, error, showBoxScore, selectedGame,
                   boxScoreLoading, listReqs, boxReqs, listHistory>>

----------------------------------------------------------------------------
(* Box score loader *)

\* handleGameClick that keeps the loaded players when the selected game is clicked again
handleGameClickKeepsPlayers ==
    /\ Mounted /\ View = "main"
    /\ InFlight(boxReqs) < MaxBoxReqs
    /\ \E game \in Range(games) :
        /\ selectedGame' = IF selectedGame # None /\ selectedGame[1].id = game.id
                           THEN selectedGame
                           ELSE Some(game)
        /\ boxReqs' = IssueBoxRequest(game)
        /\ lastOp' = [op |-> "handleGameClick", arg |-> Some(game.id)]
    /\ showBoxScore' = TRUE
    /\ boxScoreLoading' = TRUE
    /\ UNCHANGED <<phase, timer, activeIndex, games, loading, error, listReqs,
                   listHistory>>

\* handleGameClick up to its await: a card of the main view is clicked
handleGameClick ==
    /\ Mounted /\ View = "main"
    /\ InFlight(boxReqs) < MaxBoxReqs
    /\ \E game \in Range(games) :
        /\ selectedGame' = Some(game)
        /\ boxReqs' = IssueBoxRequest(game)
        /\ lastOp' = [op |-> "handleGameClick", arg |-> Some(game.id)]
    /\ showBoxScore' = TRUE
    /\ boxScoreLoading' = TRUE
    /\ UNCHANGED <<phase, timer, activeIndex, games, loading, error, listReqs,
                   listHistory>>

\* handleGameClick resumes with an ok response: merge the players, then the
\* finally block clears boxScoreLoading
BoxScoreSucceeded ==
    \E g \in GameIds, kind \in {"latest", "stale"} :
        /\ Pending(g, kind)
        /\ boxReqs' = Settle(g, kind)
        /\ IF Mounted
           THEN \E data \in BoxScoreResponses(g) :
                   /\ selectedGame' = MergePlayers(selectedGame, data)
                   /\ boxScoreLoading' = FALSE
                   /\ lastOp' = [op |-> "BoxScoreSucceeded", arg |-> Some(data)]
           ELSE /\ UNCHANGED <<selectedGame, boxScoreLoading>>
                /\ lastOp' = [op |-> "BoxScoreSucceeded", arg |-> None]
        /\ UNCHANGED <<phase, timer, activeIndex, games, loading, error, showBoxScore,
                       listReqs, listHistory>>

\* BoxScoreFailed without the finally block
BoxScoreFailedKeepsLoading ==
    \E g \in GameIds, kind \in {"latest", "stale"} :
        /\ Pending(g, kind)
        /\ boxReqs' = Settle(g, kind)
        /\ lastOp' = [op |-> "BoxScoreFailed", arg |-> Some(kind)]
        /\ UNCHANGED <<phase, timer, activeIndex, games, loading, error, showBoxScore,
                       selectedGame, boxScoreLoading, listReqs, listHistory>>

\* handleGameClick resumes in its catch block (logs only), then the finally block
BoxScoreFailed ==
    \E g \in GameIds, kind \in {"latest", "stale"} :
        /\ Pending(g, kind)
        /\ boxReqs' = Settle(g, kind)
        /\ IF Mounted
           THEN boxScoreLoading' = FALSE
           ELSE UNCHANGED boxScoreLoading
        /\ lastOp' = [op |-> "BoxScoreFailed", arg |-> Some(kind)]
        /\ UNCHANGED <<phase, timer, activeIndex, games, loading, error, showBoxScore,
                       selectedGame, listReqs, listHistory>>

\* CloseDialog that also forgets the selected game
CloseDialogClearsSelection ==
    /\ Mounted /\ View = "main"
    /\ showBoxScore
    /\ showBoxScore' = FALSE
    /\ selectedGame' = None
    /\ lastOp' = [op |-> "CloseDialog", arg |-> None]
    /\ UNCHANGED <<phase, timer, activeIndex, games, loading, error,
                   boxScoreLoading, listReqs, boxReqs, listHistory>>

\* Dialog onOpenChange={setShowBoxScore}: the open dialog is dismissed
CloseDialog ==
    /\ Mounted /\ View = "main"
    /\ showBoxScore
    /\ showBoxScore' = FALSE
    /\ lastOp' = [op |-> "CloseDialog", arg |-> None]
    /\ UNCHANGED <<phase, timer, activeIndex, games, loading, error, selectedGame,
                   boxScoreLoading, listReqs, boxReqs, listHistory>>

----------------------------------------------------------------------------

Next ==
    \/ Mount
    \/ Tick
    \/ Unmount
    \/ ListFetchSucceeded
    \/ ListFetchFailed
    \/ handlePrevious
    \/ handleNext
    \/ IndicatorClick
    \/ handleGameClick
    \/ BoxScoreSucceeded
    \/ BoxScoreFailed
    \/ CloseDialog

Spec == Init /\ [][Next]_vars

\* a list request gets its response, whichever it is
ListSettles == ListFetchSucceeded \/ ListFetchFailed

\* the effect runs after the first render, and every list request issued is
\* eventually answered, by a response or by a rejection
Fairness ==
    /\ WF_vars(Mount)
    /\ WF_vars(ListSettles)

SpecLive == Init /\ [][Next]_vars /\ Fairness

----------------------------------------------------------------------------
(* formatMinutes: strings are sequences of characters *)

\* the longest minutes string passed to formatMinutes
MaxMinutesLen == 5

\* the decimal digits, in order of value
DigitChars == <<"0", "1", "2", "3", "4", "5", "6", "7", "8", "9">>

\* the characters the minutes strings are made of
MinutesChars == {"0", "1", "3", "5", "7", ":"}

\* the strings of length n over MinutesChars
StringsOfLen(n) == [1..n -> MinutesChars]

\* player.minutes as passed to formatMinutes: absent, or a string
MinutesInputs == {None} \cup {Some(str) : str \in UNION {StringsOfLen(n) : n \in 0..MaxMinutesLen}}

IsDigit(c) == \E i \in DOMAIN DigitChars : DigitChars[i] = c

DigitValue(c) == (CHOOSE i \in DOMAIN DigitChars : DigitChars[i] = c) - 1

\* the index of the first ":" of str at or after from, 0 when there is none
IndexOfColon(str, from) ==
    IF \E i \in from..Len(str) : str[i] = ":"
    THEN CHOOSE i \in from..Len(str) :
            str[i] = ":" /\ \A j \in from..(i - 1) : str[j] # ":"
    ELSE 0

\* str.split(":"): the parts of str between its colons
RECURSIVE split(_)
split(str) ==
    IF IndexOfColon(str, 1) = 0 THEN <<str>>
    ELSE <<SubSeq(str, 1, IndexOfColon(str, 1) - 1)>>
            \o split(SubSeq(str, IndexOfColon(str, 1) + 1, Len(str)))

RECURSIVE ParseDigits(_, _, _)
\* the value of the digits of str from index i on, up to the first non-digit
ParseDigits(str, i, acc) ==
    IF i > Len(str) \/ ~IsDigit(str[i]) THEN acc
    ELSE ParseDigits(str, i + 1, acc * 10 + DigitValue(str[i]))

\* parseInt(str): the number the leading digits denote, NaN (None) without one
parseInt(str) ==
    IF Len(str) = 0 \/ ~IsDigit(str[1]) THEN None
    ELSE Some(ParseDigits(str, 1, 0))

RECURSIVE NumberToString(_)
\* a number inside a template literal: its decimal digits, or NaN
NumberToString(n) ==
    IF n = None THEN <<"N", "a", "N">>
    ELSE IF n[1] < 10 THEN <<DigitChars[n[1] + 1]>>
    ELSE NumberToString(Some(n[1] \div 10)) \o <<DigitChars[(n[1] % 10) + 1]>>

\* str.slice(0, 2)
slice02(str) == SubSeq(str, 1, IF Len(str) < 2 THEN Len(str) ELSE 2)

\* a call's outcome: the string returned, or the TypeError thrown
Returns(str) == [throws |-> FALSE, text |-> str]
Throws == [throws |-> TRUE, text |-> <<>>]

\* formatMinutes that keeps the minutes part as written
formatMinutesKeepsPadding(minutes) ==
    IF minutes = None \/ minutes = Some(<<>>) THEN Returns(<<"0", ":", "0", "0">>)
    ELSE LET parts == split(minutes[1])
         IN  IF Len(parts) < 2 THEN Throws
             ELSE Returns(parts[1] \o <<":">> \o slice02(parts[2]))

\* formatMinutes(minutes); secs is undefined when the string has no ":", and
\* secs.slice then throws
formatMinutes(minutes) ==
    IF minutes = None \/ minutes = Some(<<>>) THEN Returns(<<"0", ":", "0", "0">>)
    ELSE LET parts == split(minutes[1])
         IN  IF Len(parts) < 2 THEN Throws
             ELSE Returns(NumberToString(parseInt(parts[1])) \o <<":">> \o slice02(parts[2]))

\* a row of the box score table is about to be rendered for a player with any
\* minutes value
InitFormat ==
    /\ phase = "created"
    /\ timer = FALSE
    /\ activeIndex = 0
    /\ games = <<>>
    /\ loading = TRUE
    /\ error = None
    /\ showBoxScore = FALSE
    /\ selectedGame = None
    /\ boxScoreLoading = FALSE
    /\ listReqs = 0
    /\ boxReqs = [g \in GameIds |-> [stale |-> 0, latest |-> 0]]
    /\ listHistory = "none"
    /\ \E minutes \in MinutesInputs :
          lastOp = [op |-> "row", arg |-> Some([minutes |-> minutes, result |-> None])]

\* {formatMinutes(player.minutes)}
formatMinutesCall ==
    /\ lastOp.op = "row"
    /\ lastOp' = [op |-> "formatMinutes",
                  arg |-> Some([minutes |-> lastOp.arg[1].minutes,
                                result |-> Some(formatMinutes(lastOp.arg[1].minutes))])]
    /\ UNCHANGED <<phase, timer, activeIndex, games, loading, error, showBoxScore,
                   selectedGame, boxScoreLoading, listReqs, boxReqs, listHistory>>

NextFormat == formatMinutesCall

SpecFormat == InitFormat /\ [][NextFormat]_vars

----------------------------------------------------------------------------
(* What is on screen *)

\* the players of a team, none when the field is absent
PlayersOf(team) == IF team.players = None THEN <<>> ELSE team.players[1]

\* a team's table body shows the "No player data available" row
Placeholder(team) == Len(PlayersOf(team)) = 0

\* the cards of the carousel
DisplayedGames == IF View = "main" THEN games ELSE <<>>

\* player p is on a roster of game gameId
FromGame(p, gameId) == p.name[2] = gameId

----------------------------------------------------------------------------
(* C1 *)

\* C1: the players held in selectedGame are never the players returned for a
\* game id different from selectedGame.id.
C1_NoStalePlayers ==
    selectedGame # None =>
        /\ \A i \in DOMAIN PlayersOf(selectedGame[1].homeTeam) :
               FromGame(PlayersOf(selectedGame[1].homeTeam)[i], selectedGame[1].id)
        /\ \A i \in DOMAIN PlayersOf(selectedGame[1].awayTeam) :
               FromGame(PlayersOf(selectedGame[1].awayTeam)[i], selectedGame[1].id)

----------------------------------------------------------------------------
(* C2, C3 *)

\* C2: when a list fetch has failed and a list fetch scheduled after that failure
\* succeeds with a non-empty sequence, the view leaves the error display and
\* shows the returned games.
\* (The fetch is the one a tick issued with the error on display and no other
\* list request in flight.)
C2_RecoversOnRetry ==
    [][(/\ Mounted
        /\ View = "error"
        /\ lastOp.op = "Tick"
        /\ listReqs = 1
        /\ lastOp'.op = "ListFetchSucceeded"
        /\ Len(lastOp'.arg[1]) > 0)
       => (View' = "main" /\ DisplayedGames' = lastOp'.arg[1])]_vars

\* C3: after a successful list fetch is applied the view displays exactly the
\* returned sequence; a zero-length response gives the "no games scheduled"
\* view, not the error view.
C3_ShowsResponse ==
    (Mounted /\ lastOp.op = "ListFetchSucceeded")
    => /\ DisplayedGames = lastOp.arg[1]
       /\ Len(lastOp.arg[1]) = 0 => View = "empty"
       /\ View # "error"

----------------------------------------------------------------------------
(* C4 *)

\* C4: a list fetch that fails switches the mounted view into the error display
\* (error non-null, loading false) and issues no request itself: list requests
\* are issued only by the mount and by a timer tick.
C4_FailureShowsError ==
    /\ [][(lastOp'.op = "ListFetchFailed" /\ Mounted)
            => /\ error' # None
               /\ loading' = FALSE
               /\ View' = "error"
               /\ listReqs' = listReqs - 1]_vars
    /\ [][listReqs' > listReqs => lastOp'.op \in {"Mount", "Tick"}]_vars

\* a failure has just been handled, the error is on display and the timer is live
C4_Witness ==
    /\ Mounted /\ timer
    /\ lastOp.op = "ListFetchFailed"
    /\ View = "error"
    /\ listReqs = 0

----------------------------------------------------------------------------
(* C5 *)

\* C5 as stated: in every state in which no list fetch has yet succeeded,
\* loading is true and the loading placeholder is shown.
C5_LoadingUntilSuccess == listHistory # "ok" => (loading /\ View = "loading")

\* C5 amended: before the first successful list response the view shows the
\* loading placeholder or, once a list fetch has failed, the error message;
\* while no list fetch has settled at all, loading is true.
C5_LoadingUntilSettled ==
    listHistory # "ok"
        => /\ View \in {"loading", "error"}
           /\ listHistory = "none" => (loading /\ View = "loading")

\* still loading with the mount's request and a tick's request both outstanding
C5_Witness ==
    /\ Mounted /\ listHistory = "none"
    /\ lastOp.op = "Tick"
    /\ listReqs = 2
    /\ View = "loading"

----------------------------------------------------------------------------
(* C6 *)

\* C6: handleGameClick(game) sets selectedGame to that game, showBoxScore and
\* boxScoreLoading to true, and while the request of the most recent click is
\* outstanding boxScoreLoading stays true.
C6_LoadingUntilResolved ==
    /\ lastOp.op = "handleGameClick"
         => /\ selectedGame # None
            /\ selectedGame[1] \in Range(games)
            /\ selectedGame[1].id = lastOp.arg[1]
            /\ showBoxScore
            /\ boxScoreLoading
    /\ (Mounted /\ LatestPending) => boxScoreLoading

----------------------------------------------------------------------------
(* C7 *)

\* the fields of a team other than players
TeamFrame(t) == <<t.name, t.logo, t.color, t.secondaryColor, t.score>>

\* C7: applying a successful box score response sets the selected game's home
\* and away players to exactly the returned sequences, leaves its id, time,
\* status and each team's name, logo, colors and score unchanged, and leaves
\* games unchanged; no game of games ever carries players.
C7_MergeOnlyPlayers ==
    /\ [][(lastOp'.op = "BoxScoreSucceeded" /\ Mounted /\ selectedGame # None)
            => /\ selectedGame' # None
               /\ selectedGame'[1].homeTeam.players = Some(lastOp'.arg[1].homeTeam.players)
               /\ selectedGame'[1].awayTeam.players = Some(lastOp'.arg[1].awayTeam.players)
               /\ selectedGame'[1].id = selectedGame[1].id
               /\ selectedGame'[1].time = selectedGame[1].time
               /\ selectedGame'[1].status = selectedGame[1].status
               /\ TeamFrame(selectedGame'[1].homeTeam) = TeamFrame(selectedGame[1].homeTeam)
               /\ TeamFrame(selectedGame'[1].awayTeam) = TeamFrame(selectedGame[1].awayTeam)
               /\ games' = games]_vars
    /\ [](\A i \in DOMAIN games :
            games[i].homeTeam.players = None /\ games[i].awayTeam.players = None)

\* a response with players on both sides has just been merged
C7_Witness ==
    /\ Mounted
    /\ lastOp.op = "BoxScoreSucceeded"
    /\ selectedGame # None
    /\ Len(lastOp.arg[1].homeTeam.players) > 0
    /\ Len(lastOp.arg[1].awayTeam.players) > 0
    /\ PlayersOf(selectedGame[1].homeTeam) = lastOp.arg[1].homeTeam.players
    /\ selectedGame[1].homeTeam.score > 0
    /\ Len(games) > 0

----------------------------------------------------------------------------
(* C8 *)

\* C8: when the box score request of the current selection fails, the modal
\* that was open stays open, the selected game's teams have no players (both
\* tables show the placeholder), and games, error, loading and activeIndex are
\* unchanged.
C8_FailureLeavesPlaceholder ==
    [][(lastOp'.op = "BoxScoreFailed" /\ lastOp'.arg[1] = "latest" /\ Mounted)
         => /\ showBoxScore => showBoxScore'
            /\ selectedGame' # None
            /\ Placeholder(selectedGame'[1].homeTeam)
            /\ Placeholder(selectedGame'[1].awayTeam)
            /\ UNCHANGED <<games, error, loading, activeIndex>>]_vars

----------------------------------------------------------------------------
(* C9 *)

\* C9: applying a list response, ok or failed, changes only games, loading and
\* error: selectedGame with its players and scores, showBoxScore and
\* boxScoreLoading are unchanged.
C9_RefreshKeepsSelection ==
    [][lastOp'.op \in {"ListFetchSucceeded", "ListFetchFailed"}
         => UNCHANGED <<selectedGame, showBoxScore, boxScoreLoading, activeIndex,
                        phase, timer, boxReqs>>]_vars

\* the modal is open on a game with loaded players whose score in the refreshed
\* list differs from the score captured at selection time
C9_Witness ==
    /\ Mounted
    /\ lastOp.op = "ListFetchSucceeded"
    /\ showBoxScore
    /\ selectedGame # None
    /\ ~Placeholder(selectedGame[1].homeTeam)
    /\ \E i \in DOMAIN games :
          /\ games[i].id = selectedGame[1].id
          /\ games[i].homeTeam.score # selectedGame[1].homeTeam.score

----------------------------------------------------------------------------
(* C10 *)

\* C10: the mount issues one list request and so does every timer tick; while
\* the view is mounted the tick is enabled whatever loading, error and the
\* requests in flight are (up to the bound on requests in flight); after
\* teardown the timer is cancelled and no list request is issued.
C10_PollsWhileMounted ==
    /\ [][lastOp'.op \in {"Mount", "Tick"} => listReqs' = listReqs + 1]_vars
    /\ []((Mounted /\ listReqs < MaxListReqs) => ENABLED Tick)
    /\ [](phase = "unmounted" => ~timer)
    /\ [][phase = "unmounted" => listReqs' <= listReqs]_vars

\* a tick has just fired with the error on display, a list request and a box
\* score request outstanding
C10_Witness ==
    /\ Mounted
    /\ lastOp.op = "Tick"
    /\ error # None
    /\ listReqs = 2
    /\ InFlight(boxReqs) > 0

----------------------------------------------------------------------------
(* C11 *)

\* C11: with N >= 1 games and the active index i in 0..N-1, handleNext sets
\* activeIndex to (i+1) mod N and handlePrevious sets it to (i-1+N) mod N; with
\* N = 1, index 0 maps to itself in both directions.
C11_CyclicNavigation ==
    /\ [][(lastOp'.op = "handleNext" /\ activeIndex \in 0..(Len(games) - 1))
            => activeIndex' = (activeIndex + 1) % Len(games)]_vars
    /\ [][(lastOp'.op = "handlePrevious" /\ activeIndex \in 0..(Len(games) - 1))
            => activeIndex' = (activeIndex - 1 + Len(games)) % Len(games)]_vars

\* handleNext has just wrapped from the last of several cards to the first
C11_Witness ==
    /\ Mounted
    /\ lastOp.op = "handleNext"
    /\ Len(games) = MaxGameId
    /\ activeIndex = 0

----------------------------------------------------------------------------
(* C12 *)

\* C12: closing the dialog sets showBoxScore to false and leaves selectedGame,
\* boxScoreLoading, games, error and activeIndex unchanged; a box score response
\* that arrives while the dialog is closed is still merged into selectedGame and
\* leaves showBoxScore false.
C12_CloseOnlyClearsFlag ==
    /\ [][lastOp'.op = "CloseDialog"
            => /\ showBoxScore' = FALSE
               /\ UNCHANGED <<selectedGame, boxScoreLoading, games, error, activeIndex>>]_vars
    /\ [][(lastOp'.op = "BoxScoreSucceeded" /\ lastOp'.arg # None /\ ~showBoxScore)
            => /\ showBoxScore' = FALSE
               /\ selectedGame' # None
               /\ selectedGame'[1].id = selectedGame[1].id
               /\ selectedGame'[1].homeTeam.players = Some(lastOp'.arg[1].homeTeam.players)
               /\ selectedGame'[1].awayTeam.players = Some(lastOp'.arg[1].awayTeam.players)]_vars

\* a response with players has been merged while the dialog was closed
C12_Witness ==
    /\ Mounted
    /\ lastOp.op = "BoxScoreSucceeded"
    /\ ~showBoxScore
    /\ selectedGame # None
    /\ Len(PlayersOf(selectedGame[1].homeTeam)) > 0

----------------------------------------------------------------------------
(* C13 *)

\* the selected game carries a players field on one of its teams
HasPlayers(sel) ==
    /\ sel # None
    /\ \/ sel[1].homeTeam.players # None
       \/ sel[1].awayTeam.players # None

----------------------------------------------------------------------------
(* C15 *)

\* the carousel position of the card at a (0-based) index
Position(index) ==
    LET p == index - activeIndex
        q == IF p < 0 THEN p + Len(games) ELSE p
    IN  IF q >= Len(games) THEN q - Len(games) ELSE q

\* the cards drawn as the active one (position 0, full opacity)
ActiveCards == {index \in 0..(Len(games) - 1) : Position(index) = 0}

\* the indicator buttons drawn as the active one
ActiveIndicators == {index \in 0..(Len(games) - 1) : index = activeIndex}

\* C15: whenever games is non-empty, 0 <= activeIndex < games.length, so exactly
\* one card, the one at activeIndex, is the active one and its indicator is the
\* highlighted one.
C15_IndexValid ==
    (Mounted /\ Len(games) > 0) =>
        /\ activeIndex \in 0..(Len(games) - 1)
        /\ ActiveCards = {activeIndex}
        /\ ActiveIndicators = {activeIndex}

----------------------------------------------------------------------------
(* C16 *)

\* the box score dialog is on screen: the Dialog element belongs to the main
\* view's markup only, and it is open when showBoxScore is true
DialogRendered == View = "main" /\ showBoxScore

\* C16: in every reachable state where showBoxScore is true the box score dialog
\* is part of the rendered view, also after a list refresh that fails or returns
\* an empty sequence.
C16_OpenModalRendered == (Mounted /\ showBoxScore) => DialogRendered

----------------------------------------------------------------------------
(* C14 *)

\* str is digits, one ":", digits, with at least one digit of minutes
IsMinutesSeconds(str) ==
    \E k \in 2..Len(str) :
        /\ str[k] = ":"
        /\ \A i \in (1..Len(str)) \ {k} : IsDigit(str[i])

\* the position of the ":" of a minutes:seconds string
ColonAt(str) == CHOOSE k \in 1..Len(str) : str[k] = ":"

RECURSIVE StripZeros(_)
\* str without its leading zeros, the last digit kept
StripZeros(str) ==
    IF Len(str) > 1 /\ str[1] = "0" THEN StripZeros(Tail(str)) ELSE str

\* str cut to its first two characters, shorter strings as they are
AtMostTwo(str) == IF Len(str) <= 2 THEN str ELSE <<str[1], str[2]>>

\* the minutes value formatMinutes was last called with, and what it gave
FormatArg == lastOp.arg[1].minutes
FormatResult == lastOp.arg[1].result[1]

\* C14: for every "minutes:seconds" string formatMinutes returns the minutes
\* without leading zero-padding, ":", and the seconds cut to at most two
\* characters and not padded ("07:30" gives "7:30", "10:5" gives "10:5"); for an
\* empty or absent input it returns "0:00".
C14_FormatMinutes ==
    lastOp.op = "formatMinutes" =>
        /\ (FormatArg = None \/ FormatArg = Some(<<>>))
              => FormatResult = Returns(<<"0", ":", "0", "0">>)
        /\ (FormatArg # None /\ IsMinutesSeconds(FormatArg[1]))
              => FormatResult =
                    Returns(StripZeros(SubSeq(FormatArg[1], 1, ColonAt(FormatArg[1]) - 1))
                            \o <<":">>
                            \o AtMostTwo(SubSeq(FormatArg[1], ColonAt(FormatArg[1]) + 1,
                                                Len(FormatArg[1]))))
        /\ FormatArg = Some(<<"0", "7", ":", "3", "0">>)
              => FormatResult = Returns(<<"7", ":", "3", "0">>)
        /\ FormatArg = Some(<<"1", "0", ":", "5">>)
              => FormatResult = Returns(<<"1", "0", ":", "5">>)

\* formatMinutes("07:30") has returned "7:30"
C14_Witness ==
    /\ lastOp.op = "formatMinutes"
    /\ FormatArg = Some(<<"0", "7", ":", "3", "0">>)
    /\ FormatResult = Returns(<<"7", ":", "3", "0">>)

----------------------------------------------------------------------------
(* C17 *)

\* C17: with every list request eventually answered, loading becomes false
\* (unless the view is torn down first) and, once false, is not true again while
\* the view is mounted; and after any clicks boxScoreLoading is false in every
\* state in which no box score request is outstanding, whether the requests
\* succeeded or failed.
C17_LoadingFlagsSettle ==
    /\ <>(phase = "unmounted" \/ ~loading)
    /\ [][(Mounted /\ ~loading /\ Mounted') => ~loading']_vars
    /\ []((Mounted /\ InFlight(boxReqs) = 0) => ~boxScoreLoading)

\* after several clicks the last outstanding box score request has failed, and
\* both flags are false
C17_Witness ==
    /\ Mounted
    /\ lastOp = [op |-> "BoxScoreFailed", arg |-> Some("latest")]
    /\ InFlight(boxReqs) = 0
    /\ ~boxScoreLoading
    /\ ~loading
    /\ listReqs = 0

====
